---- MODULE Spec2Model ----
(***************************************************************************)
(* Experiment ingestion and statistics pipeline of the IoT HTTP/MQTT       *)
(* device simulation (src/analyze_experiments.py).                         *)
(*                                                                         *)
(* File names are sequences of one-character strings.  A timestamp text is *)
(* a sequence of lexical tokens (date-time core, '+', '-', 'Z', offset,    *)
(* junk).  Times are whole seconds, delays are milliseconds.               *)
(***************************************************************************)
EXTENDS Integers, Sequences, FiniteSets, TLC

VARIABLES
    dirExists,        \* Path(data_folder).exists()
    dir,              \* the data folder: sequence of files in enumeration order
    args,             \* parsed command line of main()
    pc,               \* position of main() / load_experiment_data()
    csv_files,        \* the part of list(data_folder.glob("*.csv")) not yet visited
    experiment_data,  \* defaultdict(list): insertion-ordered <<key, delays>> entries
    throughput_runs,  \* defaultdict(list): insertion-ordered <<key, pairs>> entries
    raised,           \* exception that left load_experiment_data, or "none"
    stats_df,         \* rows of aggregate_statistics, or <<>> before it ran
    figures,          \* charts saved by the two plot functions
    exported,         \* stats_df.to_csv: not called, or returned having written rows
    output_dir,       \* the directory of the charts: "absent" or "created"
    folder,           \* the files of the data folder as they are on disk now
    u_in,             \* argument of the function under unit check
    u_out,            \* the call: not made yet, or returned with its result
    csv_lock,         \* storage._csv_lock: 0 when free, else the request holding it
    disk,             \* the output file of the collector: exists, lines written
    calls,            \* the request threads of the collector, one per POST /data
    device,           \* the fields stop_event and thread of one simulated device
    threads,          \* the threads the device created, each at its place in _run
    ctl,              \* the controlling thread: idle, or inside start() or stop()
    probe             \* what the emitter did since stop_event was last set

vars == <<dirExists, dir, args, pc, csv_files, experiment_data, throughput_runs,
          raised, stats_df, figures, exported, output_dir, folder, u_in, u_out,
          csv_lock, disk, calls, device, threads, ctl, probe>>

pipeVars == <<dirExists, dir, args, pc, csv_files, experiment_data,
              throughput_runs, raised, stats_df, figures, exported, output_dir,
              folder>>

unitVars == <<u_in, u_out>>

storageVars == <<csv_lock, disk, calls>>

deviceVars == <<device, threads, ctl, probe>>

threadVars == <<storageVars, deviceVars>>

\* no request has arrived at the collector and no device has been started
ThreadsIdle ==
    /\ csv_lock = 0
    /\ disk = [exists |-> FALSE, lines |-> <<>>]
    /\ calls = <<>>
    /\ device = [stop_event |-> FALSE, thread |-> 0]
    /\ threads = <<>>
    /\ ctl = "idle"
    /\ probe = [stopped |-> FALSE, in_progress |-> FALSE, sends |-> 0]

----------------------------------------------------------------------------
(* Bounds *)

\* files in the data folder
MaxFiles == 2

\* data rows in the data folder, all files together
MaxRows == 2

\* runs of one key in a throughput pool given to the comparison
MaxRuns == 2

\* messages of one run in such a pool
MaxCount == 2

\* whole seconds of the span of one run in such a pool
MaxSpan == 2

\* delays of one pool given to aggregate_statistics, and their largest value
MaxPool == 3
MaxDelay == 3

\* largest second and largest whole-hour offset of a time cell given to
\* calculate_delay
MaxSecond == 1
MaxOffset == 1

\* rows of a statistics table given to the delay comparison and their
\* largest device count
MaxStatRows == 3
MaxDevices == 2

\* largest interval and device count of a configuration given to the writer
MaxNumber == 12

----------------------------------------------------------------------------
(* Text *)

None == <<"None">>

\* the state of a call: not made yet, or returned with a value
NotCalled == [called |-> FALSE, v |-> <<>>]

Returned(v) == [called |-> TRUE, v |-> v]

DotCsv == <<".", "c", "s", "v">>

\* the decimal digits, in order of value
DigitChars == <<"0", "1", "2", "3", "4", "5", "6", "7", "8", "9">>

Digits == {DigitChars[i] : i \in DOMAIN DigitChars}

DigitValue(c) == (CHOOSE i \in DOMAIN DigitChars : DigitChars[i] = c) - 1

\* str.upper() on one character of the alphabet used here
UpperChar(c) ==
    CASE c = "h" -> "H" [] c = "t" -> "T" [] c = "p" -> "P"
      [] c = "m" -> "M" [] c = "q" -> "Q" [] c = "s" -> "S"
      [] c = "c" -> "C" [] c = "v" -> "V" [] c = "x" -> "X"
      [] OTHER -> c

Upper(s) == [i \in 1..Len(s) |-> UpperChar(s[i])]

StartsWith(s, p) == Len(s) >= Len(p) /\ SubSeq(s, 1, Len(p)) = p

EndsWith(s, p) == Len(s) >= Len(p) /\ SubSeq(s, Len(s) - Len(p) + 1, Len(s)) = p

\* str.replace(old, new): every non-overlapping occurrence, left to right
RECURSIVE StrReplace(_, _, _)
StrReplace(s, old, new) ==
    IF Len(s) < Len(old) THEN s
    ELSE IF StartsWith(s, old)
         THEN new \o StrReplace(SubSeq(s, Len(old) + 1, Len(s)), old, new)
         ELSE <<Head(s)>> \o StrReplace(Tail(s), old, new)

\* length of the longest prefix of s made of decimal digits: what \d+ consumes
RECURSIVE DigitRun(_)
DigitRun(s) == IF s /= <<>> /\ Head(s) \in Digits THEN 1 + DigitRun(Tail(s)) ELSE 0

\* int() of a digit string
RECURSIVE IntOf(_)
IntOf(ds) ==
    IF ds = <<>> THEN 0
    ELSE 10 * IntOf(SubSeq(ds, 1, Len(ds) - 1)) + DigitValue(ds[Len(ds)])

Drop(s, n) == SubSeq(s, n + 1, Len(s))

HTTP == <<"H", "T", "T", "P">>
MQTT == <<"M", "Q", "T", "T">>

ProtocolWords == {HTTP, MQTT}

\* re.match(r'^(\d+)_(\d+)_(HTTP|MQTT)$', base_name, re.IGNORECASE): the three
\* groups, or None.  '$' also matches just before one trailing newline.
RegexMatch(base_name) ==
    LET n1 == DigitRun(base_name)
        r1 == Drop(base_name, n1)
        r2 == Drop(r1, 1)
        n2 == DigitRun(r2)
        r3 == Drop(r2, n2)
        r4 == Drop(r3, 1)
        g3 == SubSeq(r4, 1, 4)
        r5 == Drop(r4, 4)
    IN  IF /\ n1 >= 1 /\ r1 /= <<>> /\ Head(r1) = "_"
           /\ n2 >= 1 /\ r3 /= <<>> /\ Head(r3) = "_"
           /\ Len(r4) >= 4 /\ Upper(g3) \in ProtocolWords
           /\ r5 \in {<<>>, <<"\n">>}
        THEN <<SubSeq(base_name, 1, n1), SubSeq(r2, 1, n2), g3>>
        ELSE None

\* base_name = filename.replace('.csv', '')
RemoveCsv(filename) == StrReplace(filename, DotCsv, <<>>)

parse_filename(filename) ==
    LET match == RegexMatch(RemoveCsv(filename))
    IN  IF match /= None
        THEN <<IntOf(match[1]), IntOf(match[2]), Upper(match[3])>>
        ELSE None

----------------------------------------------------------------------------
(* Timestamps *)

\* seconds in one hour of UTC offset
Hour == 3600

MsPerSecond == 1000

\* lexical tokens of a timestamp text
DT(t) == [k |-> "dt",  v |-> t]    \* YYYY-MM-DDTHH:MM:SS.ffffff, t seconds
DTS(t) == [k |-> "dts", v |-> t]    \* YYYY-MM-DDTHH:MM:SS, no fraction
DTU(t) == [k |-> "dtu", v |-> t]    \* Y-M-DTH:M:S.f, fields not zero-padded
OFF(h) == [k |-> "off", v |-> h]    \* hh:00
PLUS == [k |-> "plus",  v |-> 0]
MINUS == [k |-> "minus", v |-> 0]
ZED == [k |-> "Z",     v |-> 0]
JUNK == [k |-> "junk",  v |-> 0]  \* not-a-date

\* a cell of the data frame: a str, or a float NaN for an empty cell
Str(toks) == [text |-> TRUE, toks |-> toks]
NaN == [text |-> FALSE, toks |-> <<>>]

\* a parsed datetime, or the failure of the parse
Naive(t) == [ok |-> TRUE, aware |-> FALSE, t |-> t, off |-> 0]
Aware(t, off) == [ok |-> TRUE, aware |-> TRUE, t |-> t, off |-> off]
ParseError == [ok |-> FALSE, aware |-> FALSE, t |-> 0, off |-> 0]

\* s.split(sep)[0]
RECURSIVE SplitFirst(_, _)
SplitFirst(toks, sep) ==
    IF toks = <<>> \/ Head(toks) = sep THEN <<>>
    ELSE <<Head(toks)>> \o SplitFirst(Tail(toks), sep)

\* s.split('+')[0].split('Z')[0]
StripTimezone(toks) == SplitFirst(SplitFirst(toks, PLUS), ZED)

\* datetime.fromisoformat (Python 3.11)
fromisoformat(toks) ==
    IF toks = <<>> \/ Head(toks).k \notin {"dt", "dts"} THEN ParseError
    ELSE IF Len(toks) = 1 THEN Naive(toks[1].v)
    ELSE IF Len(toks) = 2 /\ toks[2] = ZED THEN Aware(toks[1].v, 0)
    ELSE IF Len(toks) = 3 /\ toks[2] = PLUS /\ toks[3].k = "off"
         THEN Aware(toks[1].v, toks[3].v * Hour)
    ELSE IF Len(toks) = 3 /\ toks[2] = MINUS /\ toks[3].k = "off"
         THEN Aware(toks[1].v, 0 - toks[3].v * Hour)
    ELSE ParseError

\* datetime.strptime(s, '%Y-%m-%dT%H:%M:%S.%f')
strptime(toks) ==
    IF Len(toks) = 1 /\ toks[1].k \in {"dt", "dtu"} THEN Naive(toks[1].v)
    ELSE ParseError

\* the result of calculate_delay: a float, or None
Delay(ms) == [ok |-> TRUE, ms |-> ms]
NoDelay == [ok |-> FALSE, ms |-> 0]

\* how the body of the try of calculate_delay ends: with a float, or with an
\* exception
Computes(ms) == [ok |-> TRUE, ms |-> ms, exc |-> "none"]
Raises(e) == [ok |-> FALSE, ms |-> 0, exc |-> e]

\* (receive_time - timestamp).total_seconds() * 1000; datetime subtraction
\* raises TypeError for one naive and one aware operand
Subtract(receive_time, timestamp) ==
    IF receive_time.aware /= timestamp.aware THEN Raises("TypeError")
    ELSE Computes(((receive_time.t - receive_time.off)
                   - (timestamp.t - timestamp.off)) * MsPerSecond)

\* lines 55-61: both direct parses, or on a ValueError of either both
\* strptime parses; <<timestamp, receive_time>> or ParseError
ParsePair(timestamp_str, receive_time_str) ==
    LET t1 == fromisoformat(timestamp_str)
        r1 == fromisoformat(receive_time_str)
        t2 == strptime(timestamp_str)
        r2 == strptime(receive_time_str)
    IN  IF t1.ok /\ r1.ok THEN <<t1, r1>>
        ELSE IF t2.ok /\ r2.ok THEN <<t2, r2>>
        ELSE <<ParseError, ParseError>>

\* lines 46-65: the body of the try; row maps column names to cells
DelayBody(row) ==
    IF "timestamp" \notin DOMAIN row \/ "receive_time" \notin DOMAIN row
    THEN Raises("KeyError")
    ELSE IF ~row["timestamp"].text \/ ~row["receive_time"].text
    THEN Raises("AttributeError")                 \* a float has no split
    ELSE LET timestamp_str == StripTimezone(row["timestamp"].toks)
             receive_time_str == StripTimezone(row["receive_time"].toks)
             parsed == ParsePair(timestamp_str, receive_time_str)
         IN  IF ~parsed[1].ok THEN Raises("ValueError")
             ELSE Subtract(parsed[2], parsed[1])

calculate_delay_ValueErrorOnly(row) ==
    LET r == DelayBody(row)
    IN  IF r.ok THEN Delay(r.ms)
        ELSE IF r.exc = "ValueError" THEN NoDelay ELSE r

\* calculate_delay(row): the body, and None on any Exception (lines 66-68)
calculate_delay(row) ==
    LET r == DelayBody(row) IN IF r.ok THEN Delay(r.ms) ELSE NoDelay

\* one element of pd.to_datetime(col, errors='coerce', utc=True): the UTC
\* instant in seconds, or NaT
Instant(t) == [ok |-> TRUE, t |-> t]
NaT == [ok |-> FALSE, t |-> 0]

to_datetime(cell) ==
    LET toks == cell.toks IN
    IF ~cell.text \/ toks = <<>> \/ Head(toks).k \notin {"dt", "dts", "dtu"}
    THEN NaT
    ELSE IF Len(toks) = 1 THEN Instant(toks[1].v)
    ELSE IF Len(toks) = 2 /\ toks[2] = ZED THEN Instant(toks[1].v)
    ELSE IF Len(toks) = 3 /\ toks[2] = PLUS /\ toks[3].k = "off"
         THEN Instant(toks[1].v - toks[3].v * Hour)
    ELSE IF Len(toks) = 3 /\ toks[2] = MINUS /\ toks[3].k = "off"
         THEN Instant(toks[1].v + toks[3].v * Hour)
    ELSE NaT

----------------------------------------------------------------------------
(* Numbers *)

RECURSIVE Gcd(_, _)
Gcd(a, b) == IF b = 0 THEN a ELSE Gcd(b, a % b)

Abs(a) == IF a < 0 THEN 0 - a ELSE a

\* the rational n/d (d > 0) in lowest terms
Rat(n, d) == LET g == Gcd(Abs(n), d) IN [num |-> n \div g, den |-> d \div g]

RatAdd(a, b) == Rat(a.num * b.den + b.num * a.den, a.den * b.den)

RatDivInt(a, n) == Rat(a.num, a.den * n)

\* a < b, computed without a product of the two denominators' magnitudes
RatLess(a, b) ==
    IF a.den = b.den THEN a.num < b.num
    ELSE LET fa == a.num \div a.den
             fb == b.num \div b.den
         IN  IF fa /= fb THEN fa < fb
             ELSE (a.num % a.den) * b.den < (b.num % b.den) * a.den

RatMax(a, b) == IF RatLess(a, b) THEN b ELSE a

RECURSIVE SeqSum(_)
SeqSum(xs) == IF xs = <<>> THEN 0 ELSE Head(xs) + SeqSum(Tail(xs))

SetMax(S) == CHOOSE x \in S : \A y \in S : y <= x

SetMin(S) == CHOOSE x \in S : \A y \in S : x <= y

Range(xs) == {xs[i] : i \in DOMAIN xs}

----------------------------------------------------------------------------
(* The data folder *)

Chars_1_2_HTTP == <<"1", "_", "2", "_", "H", "T", "T", "P">>
Chars_1_2_http == <<"1", "_", "2", "_", "h", "t", "t", "p">>
Chars_01_2_HTTP == <<"0", "1", "_", "2", "_", "H", "T", "T", "P">>
Chars_2_2_MQTT == <<"2", "_", "2", "_", "M", "Q", "T", "T">>
Chars_bogus == <<"b", "o", "g", "u", "s">>
Chars_notes == <<"n", "o", "t", "e", "s">>

\* names of candidate files: three that decode to one key, another key, no
\* match
CsvNames == {Chars_1_2_HTTP \o DotCsv, Chars_1_2_http \o DotCsv,
             Chars_01_2_HTTP \o DotCsv,
             Chars_2_2_MQTT \o DotCsv, Chars_bogus \o DotCsv}

\* a file that glob("*.csv") does not return
OtherNames == {Chars_notes}

Utc == <<PLUS, OFF(0)>>

\* data rows: the two time cells of a record of the listener's table
RowSet ==
    { [timestamp |-> Str(<<DT(0)>> \o Utc), receive_time |-> Str(<<DT(1)>> \o Utc)],
      [timestamp |-> Str(<<DT(2)>> \o Utc), receive_time |-> Str(<<DT(2)>> \o Utc)],
      [timestamp |-> Str(<<DT(2)>>),        receive_time |-> Str(<<DT(0), ZED>>)],
      [timestamp |-> Str(<<JUNK>>),         receive_time |-> Str(<<DT(3)>> \o Utc)],
      [timestamp |-> Str(<<DT(0)>> \o Utc), receive_time |-> Str(<<DT(1), MINUS, OFF(1)>>)],
      [timestamp |-> Str(<<DT(0)>> \o Utc), receive_time |-> Str(<<JUNK>>)] }

ColumnSets == {{"timestamp", "receive_time"}, {"timestamp"}}

RowSeqs(n) == UNION {[1..m -> RowSet] : m \in 0..n}

\* the rows of a table that has only the columns cs
Project(rs, cs) == [i \in 1..Len(rs) |-> [c \in cs |-> rs[i][c]]]

\* files of at most n rows; a file that cannot be read, or is never opened,
\* is given no rows
FileSet(n) ==
    { [name |-> nm, readable |-> TRUE, columns |-> cs, rows |-> Project(rs, cs)] :
        nm \in CsvNames, cs \in ColumnSets, rs \in RowSeqs(n) }
    \cup { [name |-> nm, readable |-> FALSE, columns |-> {}, rows |-> <<>>] :
             nm \in CsvNames }
    \cup { [name |-> nm, readable |-> TRUE, columns |-> {}, rows |-> <<>>] :
             nm \in OtherNames }

\* folders of at most k files with distinct names and at most n rows in all,
\* in every enumeration order
RECURSIVE DirSet(_, _)
DirSet(k, n) ==
    IF k = 0 THEN {<<>>}
    ELSE DirSet(k - 1, n) \cup
         UNION { { <<f>> \o d : d \in { e \in DirSet(k - 1, n - Len(f.rows)) :
                                          \A i \in DOMAIN e : e[i].name /= f.name } } :
                 f \in FileSet(n) }

NoInterval == [given |-> FALSE, v |-> 0]
Interval(v) == [given |-> TRUE, v |-> v]

\* --export-csv: absent, a path outside the data folder, or a path in it
NoPath == [given |-> FALSE, parent |-> "", name |-> <<>>]
PathOf(parent, name) == [given |-> TRUE, parent |-> parent, name |-> name]

ExportPaths ==
    {NoPath, PathOf("elsewhere", Chars_notes \o DotCsv),
     PathOf("data_folder", Chars_1_2_HTTP \o DotCsv)}

\* --interval is absent or one of these; --export-csv is absent or one of those
ArgsSet == [interval : {NoInterval} \cup {Interval(v) : v \in 1..2},
            export_csv : ExportPaths]

----------------------------------------------------------------------------
(* Dictionaries: defaultdict(list) as insertion-ordered <<key, list>> entries *)

Keys(d) == {d[i][1] : i \in DOMAIN d}

Get(d, key) ==
    IF key \in Keys(d) THEN d[CHOOSE i \in DOMAIN d : d[i][1] = key][2] ELSE <<>>

\* d[key].extend(xs) / d[key].append(x) with xs = <<x>>
Extend(d, key, xs) ==
    IF key \in Keys(d)
    THEN [i \in DOMAIN d |-> IF d[i][1] = key THEN <<key, d[i][2] \o xs>> ELSE d[i]]
    ELSE Append(d, <<key, xs>>)

----------------------------------------------------------------------------
(* load_experiment_data *)

\* list(data_folder.glob("*.csv")): in enumeration order
Glob(files) == SelectSeq(files, LAMBDA f : EndsWith(f.name, DotCsv))


\* line 109: delay is not None and delay >= 0
AcceptDelay(delay) == delay.ok /\ delay.ms >= 0

\* lines 106-110: the delays of the rows of one data frame, in row order
RECURSIVE FileDelays(_)
FileDelays(rows) ==
    IF rows = <<>> THEN <<>>
    ELSE LET delay == calculate_delay(Head(rows))
         IN  (IF AcceptDelay(delay) THEN <<delay.ms>> ELSE <<>>)
             \o FileDelays(Tail(rows))

\* denominator of the 1e-9 seconds lower bound of a span
MinSpanDen == 1000000000

MinSpan == Rat(1, MinSpanDen)

SpanSeconds_NoClamp(lo, hi) == Rat(hi - lo, 1)

\* line 123: max(1e-9, (rt.max() - rt.min()).total_seconds())
SpanSeconds(lo, hi) == RatMax(MinSpan, Rat(hi - lo, 1))

\* line 121: the valid instants of the receive_time column
RECURSIVE ValidInstants(_)
ValidInstants(rows) ==
    IF rows = <<>> THEN <<>>
    ELSE LET ts == to_datetime(Head(rows)["receive_time"])
         IN  (IF ts.ok THEN <<ts.t>> ELSE <<>>) \o ValidInstants(Tail(rows))

\* lines 122-125: the pair of a run with the valid instants rt, if any
RunPair(rt) ==
    IF rt = <<>> THEN <<>>
    ELSE << [msg_count |-> Len(rt),
             span_seconds |-> SpanSeconds(SetMin(Range(rt)), SetMax(Range(rt)))] >>

FileThroughput_ShortCircuit(df) ==
    IF "receive_time" \notin df.columns \/ FileDelays(df.rows) = <<>> THEN <<>>
    ELSE RunPair(ValidInstants(df.rows))

\* lines 120-129: the pairs one data frame adds to throughput_runs[key]
FileThroughput(df) ==
    IF "receive_time" \notin df.columns THEN <<>>
    ELSE RunPair(ValidInstants(df.rows))

AddDelays_Overwrite(data, key, delays) ==
    IF delays = <<>> THEN data
    ELSE IF key \in Keys(data)
         THEN [i \in DOMAIN data |-> IF data[i][1] = key THEN <<key, delays>> ELSE data[i]]
         ELSE Append(data, <<key, delays>>)

\* lines 112-114: experiment_data after the delays of one file
AddDelays(data, key, delays) ==
    IF delays /= <<>> THEN Extend(data, key, delays) ELSE data

AddThroughput_Overwrite(runs, key, pairs) ==
    IF pairs = <<>> THEN runs
    ELSE IF key \in Keys(runs)
         THEN [i \in DOMAIN runs |-> IF runs[i][1] = key THEN <<key, pairs>> ELSE runs[i]]
         ELSE Append(runs, <<key, pairs>>)

\* line 125: throughput_runs after the pairs of one file
AddThroughput(runs, key, pairs) ==
    IF pairs /= <<>> THEN Extend(runs, key, pairs) ELSE runs

\* lines 73-76: the folder does not exist
LoadFolderMissing ==
    /\ pc = "load"
    /\ ~dirExists
    /\ raised' = "FileNotFoundError"
    /\ pc' = "except"
    /\ UNCHANGED <<dirExists, dir, args, csv_files, experiment_data,
                   throughput_runs, stats_df, figures, exported, output_dir, folder, unitVars, threadVars>>

\* lines 83-86: no candidate file
LoadNoCsv ==
    /\ pc = "load"
    /\ dirExists
    /\ Glob(dir) = <<>>
    /\ raised' = "ValueError"
    /\ pc' = "except"
    /\ UNCHANGED <<dirExists, dir, args, csv_files, experiment_data,
                   throughput_runs, stats_df, figures, exported, output_dir, folder, unitVars, threadVars>>

\* lines 78-88: the candidates are listed and the two pools start empty
LoadGlob ==
    /\ pc = "load"
    /\ dirExists
    /\ Glob(dir) /= <<>>
    /\ csv_files' = Glob(dir)
    /\ experiment_data' = <<>>
    /\ throughput_runs' = <<>>
    /\ pc' = "loop"
    /\ UNCHANGED <<dirExists, dir, args, raised, stats_df, figures, exported, output_dir, folder, unitVars, threadVars>>

RestAfterSkip_Abort(files) == <<>>

\* lines 94-96 and 131-133: continue with the next file
RestAfterSkip(files) == Tail(files)

\* lines 91-96: the name does not decode
LoopSkipUnparsed ==
    /\ pc = "loop"
    /\ csv_files /= <<>>
    /\ parse_filename(Head(csv_files).name) = None
    /\ csv_files' = RestAfterSkip(csv_files)
    /\ UNCHANGED <<dirExists, dir, args, pc, experiment_data, throughput_runs,
                   raised, stats_df, figures, exported, output_dir, folder, unitVars, threadVars>>

LoopReadError_Raises ==
    /\ pc = "loop"
    /\ csv_files /= <<>>
    /\ parse_filename(Head(csv_files).name) /= None
    /\ ~Head(csv_files).readable
    /\ raised' = "Exception"
    /\ pc' = "except"
    /\ UNCHANGED <<dirExists, dir, args, csv_files, experiment_data, throughput_runs,
                   stats_df, figures, exported, output_dir, folder, unitVars, threadVars>>

\* lines 101-103 and 131-133: pd.read_csv raises
LoopReadError ==
    /\ pc = "loop"
    /\ csv_files /= <<>>
    /\ parse_filename(Head(csv_files).name) /= None
    /\ ~Head(csv_files).readable
    /\ csv_files' = RestAfterSkip(csv_files)
    /\ UNCHANGED <<dirExists, dir, args, pc, experiment_data, throughput_runs,
                   raised, stats_df, figures, exported, output_dir, folder, unitVars, threadVars>>

\* lines 98-129: one matched, readable file
LoopProcess ==
    /\ pc = "loop"
    /\ csv_files /= <<>>
    /\ parse_filename(Head(csv_files).name) /= None
    /\ Head(csv_files).readable
    /\ LET df == Head(csv_files)
           key == parse_filename(df.name)
       IN  /\ experiment_data' = AddDelays(experiment_data, key, FileDelays(df.rows))
           /\ throughput_runs' = AddThroughput(throughput_runs, key, FileThroughput(df))
    /\ csv_files' = Tail(csv_files)
    /\ UNCHANGED <<dirExists, dir, args, pc, raised, stats_df, figures, exported, output_dir, folder, unitVars, threadVars>>

\* line 135
LoadReturn ==
    /\ pc = "loop"
    /\ csv_files = <<>>
    /\ pc' = "loaded"
    /\ UNCHANGED <<dirExists, dir, args, csv_files, experiment_data,
                   throughput_runs, raised, stats_df, figures, exported, output_dir, folder, unitVars, threadVars>>

----------------------------------------------------------------------------
(* aggregate_statistics *)

\* the list in increasing order
RECURSIVE Sorted(_)
Sorted(xs) ==
    IF xs = <<>> THEN <<>>
    ELSE LET m == SetMin(Range(xs))
             i == CHOOSE j \in DOMAIN xs : xs[j] = m
         IN  <<m>> \o Sorted(SubSeq(xs, 1, i - 1) \o SubSeq(xs, i + 1, Len(xs)))

Percentile_Unsorted(xs, q) ==
    LET a == xs
        pos == q * (Len(a) - 1)
        lo == pos \div 100
        frac == pos % 100
    IN  IF frac = 0 THEN Rat(a[lo + 1], 1)
        ELSE Rat(100 * a[lo + 1] + frac * (a[lo + 2] - a[lo + 1]), 100)

\* np.percentile(xs, q): linear interpolation between the closest ranks
Percentile(xs, q) ==
    LET a == Sorted(xs)
        pos == q * (Len(a) - 1)      \* in hundredths of a rank
        lo == pos \div 100
        frac == pos % 100
    IN  IF frac = 0 THEN Rat(a[lo + 1], 1)
        ELSE Rat(100 * a[lo + 1] + frac * (a[lo + 2] - a[lo + 1]), 100)

\* lines 150-162: one row of the table; std_delay, the square root of a
\* rational, is not represented
StatRow(key, delays) ==
    [ message_frequency |-> key[1],
      num_devices |-> key[2],
      protocol |-> key[3],
      mean_delay |-> Rat(SeqSum(delays), Len(delays)),
      min_delay |-> SetMin(Range(delays)),
      max_delay |-> SetMax(Range(delays)),
      median_delay |-> Percentile(delays, 50),
      p95_delay |-> Percentile(delays, 95),
      p99_delay |-> Percentile(delays, 99),
      count |-> Len(delays) ]

EmitRow_MoreThanOne(delays) == Len(delays) > 1

\* line 149: if delays
EmitRow(delays) == delays /= <<>>

\* lines 146-164
RECURSIVE aggregate_statistics(_)
aggregate_statistics(data) ==
    IF data = <<>> THEN <<>>
    ELSE (IF EmitRow(Head(data)[2])
          THEN <<StatRow(Head(data)[1], Head(data)[2])>> ELSE <<>>)
         \o aggregate_statistics(Tail(data))

----------------------------------------------------------------------------
(* The two comparisons *)

\* a number g * MinSpanDen + u with g and u rational: exact rates of runs
\* with a clamped span (g) and of the other runs (u)
Rat0 == Rat(0, 1)

Scaled(g, u) == [g |-> g, u |-> u]

ScaledAdd(a, b) == Scaled(RatAdd(a.g, b.g), RatAdd(a.u, b.u))

ScaledDivInt(a, n) == Scaled(RatDivInt(a.g, n), RatDivInt(a.u, n))

\* cnt / span for a span of whole seconds or of a multiple of 1e-9 seconds
PerRunRate(run) ==
    IF run.span_seconds.den = 1
    THEN Scaled(Rat0, Rat(run.msg_count, run.span_seconds.num))
    ELSE Scaled(Rat(run.msg_count * (MinSpanDen \div run.span_seconds.den),
                    run.span_seconds.num), Rat0)

\* line 218: [cnt / span for (cnt, span) in runs if span > 0]
RECURSIVE PerRunRates(_)
PerRunRates(runs) ==
    IF runs = <<>> THEN <<>>
    ELSE (IF Head(runs).span_seconds.num > 0 THEN <<PerRunRate(Head(runs))>> ELSE <<>>)
         \o PerRunRates(Tail(runs))

RECURSIVE ScaledSum(_)
ScaledSum(rates) ==
    IF rates = <<>> THEN Scaled(Rat0, Rat0)
    ELSE ScaledAdd(Head(rates), ScaledSum(Tail(rates)))

RECURSIVE RawSpanSum(_)
RawSpanSum(runs) ==
    IF runs = <<>> THEN 0
    ELSE (IF Head(runs).span_seconds.den = 1 THEN Head(runs).span_seconds.num ELSE 0)
         + RawSpanSum(Tail(runs))

RECURSIVE CountSum(_)
CountSum(runs) ==
    IF runs = <<>> THEN 0 ELSE Head(runs).msg_count + CountSum(Tail(runs))

\* total count over total span of the runs of a key
Throughput_Pooled(runs) ==
    PerRunRate([msg_count |-> CountSum(runs),
                span_seconds |-> RatMax(MinSpan, Rat(RawSpanSum(runs), 1))])

\* line 224: float(np.mean(per_run_rates))
Throughput(runs) == ScaledDivInt(ScaledSum(PerRunRates(runs)), Len(PerRunRates(runs)))

\* lines 214-225: one record per key of the interval with a rate
RECURSIVE ThroughputRecords(_, _)
ThroughputRecords(runs_by_key, interval_seconds) ==
    IF runs_by_key = <<>> THEN <<>>
    ELSE LET key == Head(runs_by_key)[1]
             runs == Head(runs_by_key)[2]
         IN  (IF key[1] /= interval_seconds \/ runs = <<>> \/ PerRunRates(runs) = <<>>
              THEN <<>>
              ELSE << [ message_frequency |-> key[1],
                        num_devices |-> key[2],
                        protocol |-> key[3],
                        throughput_mps |-> Throughput(runs) ] >>)
             \o ThroughputRecords(Tail(runs_by_key), interval_seconds)

\* the order in which both plot functions draw the protocols
PlotProtocols == <<HTTP, MQTT>>

RECURSIVE RatSum(_)
RatSum(xs) == IF xs = <<>> THEN Rat0 ELSE RatAdd(Head(xs), RatSum(Tail(xs)))

\* the values of column col in the records of protocol and device count d
ColumnOf(records, protocol, d, col) ==
    LET sel == SelectSeq(records, LAMBDA r : r.protocol = protocol /\ r.num_devices = d)
    IN  [i \in 1..Len(sel) |-> sel[i][col]]

\* the set in increasing order
RECURSIVE Ascending(_)
Ascending(S) ==
    IF S = {} THEN <<>> ELSE <<SetMin(S)>> \o Ascending(S \ {SetMin(S)})

DeviceCounts(records, protocol) ==
    {records[i].num_devices : i \in {j \in DOMAIN records : records[j].protocol = protocol}}

\* line 183: groupby('num_devices')['mean_delay'].mean().sort_index()
DelayLine(records, protocol) ==
    LET ds == Ascending(DeviceCounts(records, protocol))
    IN  [i \in 1..Len(ds) |->
           LET col == ColumnOf(records, protocol, ds[i], "mean_delay")
           IN  <<ds[i], RatDivInt(RatSum(col), Len(col))>>]

\* line 238: groupby('num_devices')['throughput_mps'].mean().sort_index()
ThroughputLine(records, protocol) ==
    LET ds == Ascending(DeviceCounts(records, protocol))
    IN  [i \in 1..Len(ds) |->
           LET col == ColumnOf(records, protocol, ds[i], "throughput_mps")
           IN  <<ds[i], ScaledDivInt(ScaledSum(col), Len(col))>>]

RowsOfInterval_All(rows, interval_seconds) == rows

\* line 172: the rows of the interval
RowsOfInterval(rows, interval_seconds) ==
    SelectSeq(rows, LAMBDA r : r.message_frequency = interval_seconds)

\* the protocols that have records, in drawing order
Present(records) ==
    SelectSeq(PlotProtocols, LAMBDA p : \E i \in DOMAIN records : records[i].protocol = p)

\* lines 179-184: one line per protocol that has rows
DelayChartLines(records) ==
    [i \in 1..Len(Present(records)) |->
       [protocol |-> Present(records)[i],
        points |-> DelayLine(records, Present(records)[i])]]

\* lines 234-239: one line per protocol that has records
ThroughputChartLines(records) ==
    [i \in 1..Len(Present(records)) |->
       [protocol |-> Present(records)[i],
        points |-> ThroughputLine(records, Present(records)[i])]]

DelayFigures_EmptyChart(rows, interval_seconds) ==
    { [kind |-> "delay", interval |-> interval_seconds,
       lines |-> DelayChartLines(RowsOfInterval(rows, interval_seconds))] }

\* lines 172-195: the chart saved for the interval, if any
DelayFigures(rows, interval_seconds) ==
    LET filtered == RowsOfInterval(rows, interval_seconds)
    IN  IF filtered = <<>> THEN {}
        ELSE { [kind |-> "delay", interval |-> interval_seconds,
                lines |-> DelayChartLines(filtered)] }

\* lines 214-250: the chart saved for the interval, if any
ThroughputFigures(runs_by_key, interval_seconds) ==
    LET records == ThroughputRecords(runs_by_key, interval_seconds)
    IN  IF records = <<>> THEN {}
        ELSE { [kind |-> "throughput", interval |-> interval_seconds,
                lines |-> ThroughputChartLines(records)] }

----------------------------------------------------------------------------
(* main *)

\* lines 334-338 and 342-346: the interval asked for, or every interval of
\* the statistics table
PlotIntervals(a, rows) ==
    IF a.interval.given THEN {a.interval.v}
    ELSE {rows[i].message_frequency : i \in DOMAIN rows}

\* the columns of the statistics table
StatColumns ==
    {"message_frequency", "num_devices", "protocol", "mean_delay", "std_delay",
     "min_delay", "max_delay", "median_delay", "p95_delay", "p99_delay", "count"}

\* line 350: DataFrame.to_csv(path) creates the file or replaces its content
WriteFile(files, path, rows) ==
    LET f == [name |-> path.name, readable |-> TRUE, columns |-> StatColumns,
              rows |-> rows]
    IN  IF path.parent /= "data_folder" THEN files
        ELSE IF \E i \in DOMAIN files : files[i].name = path.name
        THEN [i \in DOMAIN files |-> IF files[i].name = path.name THEN f ELSE files[i]]
        ELSE Append(files, f)

MainExcept_StillExports ==
    /\ pc = "except"
    /\ exported' = IF args.export_csv.given THEN Returned(stats_df) ELSE exported
    /\ folder' = IF args.export_csv.given
                 THEN WriteFile(folder, args.export_csv, stats_df) ELSE folder
    /\ pc' = "done"
    /\ UNCHANGED <<dirExists, dir, args, csv_files, experiment_data,
                   throughput_runs, raised, stats_df, figures, output_dir, unitVars, threadVars>>

\* lines 357-360: the exception of load_experiment_data is printed
MainExcept ==
    /\ pc = "except"
    /\ pc' = "done"
    /\ UNCHANGED <<dirExists, dir, args, csv_files, experiment_data,
                   throughput_runs, raised, stats_df, figures, exported, output_dir, folder, unitVars, threadVars>>

\* lines 321-323: no key has a delay
MainNoData ==
    /\ pc = "loaded"
    /\ experiment_data = <<>>
    /\ pc' = "done"
    /\ UNCHANGED <<dirExists, dir, args, csv_files, experiment_data,
                   throughput_runs, raised, stats_df, figures, exported, output_dir, folder, unitVars, threadVars>>

\* lines 325-330
MainAggregate ==
    /\ pc = "loaded"
    /\ experiment_data /= <<>>
    /\ stats_df' = aggregate_statistics(experiment_data)
    /\ pc' = "plot_delay"
    /\ UNCHANGED <<dirExists, dir, args, csv_files, experiment_data,
                   throughput_runs, raised, figures, exported, output_dir, folder, unitVars, threadVars>>

\* lines 333-338
MainPlotDelay ==
    /\ pc = "plot_delay"
    /\ figures' = figures \cup
         UNION { DelayFigures(stats_df, i) :
                   i \in PlotIntervals(args, stats_df) }
    /\ output_dir' = IF PlotIntervals(args, stats_df) /= {} THEN "created" ELSE output_dir
    /\ pc' = "plot_throughput"
    /\ UNCHANGED <<dirExists, dir, args, csv_files, experiment_data,
                   throughput_runs, raised, stats_df, exported, folder, unitVars, threadVars>>

\* lines 341-346
MainPlotThroughput ==
    /\ pc = "plot_throughput"
    /\ figures' = figures \cup
         UNION { ThroughputFigures(throughput_runs, i) :
                   i \in PlotIntervals(args, stats_df) }
    /\ output_dir' = IF PlotIntervals(args, stats_df) /= {} THEN "created" ELSE output_dir
    /\ pc' = "export"
    /\ UNCHANGED <<dirExists, dir, args, csv_files, experiment_data,
                   throughput_runs, raised, stats_df, exported, folder, unitVars, threadVars>>

\* lines 348-355
MainExport ==
    /\ pc = "export"
    /\ exported' = IF args.export_csv.given THEN Returned(stats_df) ELSE exported
    /\ folder' = IF args.export_csv.given
                 THEN WriteFile(folder, args.export_csv, stats_df) ELSE folder
    /\ pc' = "done"
    /\ UNCHANGED <<dirExists, dir, args, csv_files, experiment_data,
                   throughput_runs, raised, stats_df, figures, output_dir, unitVars, threadVars>>

----------------------------------------------------------------------------
(* The pipeline: main() on any data folder and command line *)

Init ==
    /\ dirExists \in BOOLEAN
    /\ dir \in IF dirExists THEN DirSet(MaxFiles, MaxRows) ELSE {<<>>}
    /\ args \in ArgsSet
    /\ pc = "load"
    /\ csv_files = <<>>
    /\ experiment_data = <<>>
    /\ throughput_runs = <<>>
    /\ raised = "none"
    /\ stats_df = <<>>
    /\ figures = {}
    /\ exported = NotCalled
    /\ output_dir = "absent"
    /\ folder = dir
    /\ u_in = <<>>
    /\ u_out = NotCalled
    /\ ThreadsIdle

Next ==
    \/ LoadFolderMissing
    \/ LoadNoCsv
    \/ LoadGlob
    \/ LoopSkipUnparsed
    \/ LoopReadError
    \/ LoopProcess
    \/ LoadReturn
    \/ MainExcept
    \/ MainNoData
    \/ MainAggregate
    \/ MainPlotDelay
    \/ MainPlotThroughput
    \/ MainExport

Spec == Init /\ [][Next]_vars

----------------------------------------------------------------------------
(* Unit checks: one function applied to one argument *)

PipeIdle ==
    /\ dirExists = FALSE
    /\ dir = <<>>
    /\ args = [interval |-> NoInterval, export_csv |-> NoPath]
    /\ csv_files = <<>>
    /\ experiment_data = <<>>
    /\ throughput_runs = <<>>
    /\ raised = "none"
    /\ stats_df = <<>>
    /\ figures = {}
    /\ exported = NotCalled
    /\ output_dir = "absent"
    /\ folder = <<>>

\* file names put together from a first number, a separator, a second number,
\* a separator, a protocol word and an ending
FileNameSet ==
    LET NamePart1 == {<<>>, <<"1">>, <<"0", "2">>, <<"1">> \o DotCsv, <<"x">>}
        NamePart2 == {<<"_">>, <<>>}
        NamePart3 == {<<"2">>, <<"1", "0">>, <<>>}
        NamePart4 == {<<"_">>, <<"_">> \o DotCsv}
        NamePart5 == {HTTP, <<"m", "q", "t", "t">>, <<"H", "t", "T", "p">>,
                      <<"H", "T", "T", "P", "S">>, <<"x">>, <<>>}
        NamePart6 == {DotCsv, <<>>, <<"\n">> \o DotCsv, DotCsv \o DotCsv, <<".", "x">>}
    IN  { a \o b \o c \o d \o e \o f :
            a \in NamePart1, b \in NamePart2, c \in NamePart3,
            d \in NamePart4, e \in NamePart5, f \in NamePart6 }

InitParse ==
    /\ PipeIdle
    /\ ThreadsIdle
    /\ pc = "parse_filename"
    /\ u_in \in FileNameSet
    /\ u_out = NotCalled

CallParseFilename ==
    /\ pc = "parse_filename"
    /\ ~u_out.called
    /\ u_out' = Returned(parse_filename(u_in))
    /\ UNCHANGED <<pipeVars, u_in, threadVars>>

NextParse == CallParseFilename

SpecParse == InitParse /\ [][NextParse]_vars

----------------------------------------------------------------------------
(* Claims about the Run File Locator *)

\* the name with its .csv extension removed
WithoutExtension(filename) ==
    IF EndsWith(filename, DotCsv)
    THEN SubSeq(filename, 1, Len(filename) - Len(DotCsv)) ELSE filename

AllDigits(s) == s /= <<>> /\ \A i \in DOMAIN s : s[i] \in Digits

\* the places <<i, j>> of the two underscores at which b reads
\* <digits>_<digits>_<HTTP|MQTT in any letter case>
ShapeSplits(b) ==
    { ij \in (DOMAIN b) \X (DOMAIN b) :
        /\ ij[1] < ij[2]
        /\ b[ij[1]] = "_" /\ b[ij[2]] = "_"
        /\ AllDigits(SubSeq(b, 1, ij[1] - 1))
        /\ AllDigits(SubSeq(b, ij[1] + 1, ij[2] - 1))
        /\ Upper(SubSeq(b, ij[2] + 1, Len(b))) \in ProtocolWords }

\* what the naming convention decodes filename to
Decoded(filename) ==
    LET b == WithoutExtension(filename) IN
    IF ShapeSplits(b) = {} THEN None
    ELSE LET ij == CHOOSE x \in ShapeSplits(b) : TRUE
         IN  << IntOf(SubSeq(b, 1, ij[1] - 1)),
                IntOf(SubSeq(b, ij[1] + 1, ij[2] - 1)),
                Upper(SubSeq(b, ij[2] + 1, Len(b))) >>

\* C1: parse_filename returns (first number, second number, upper-cased
\* protocol) exactly when the name without its .csv extension has the shape
\* <digits>_<digits>_<HTTP|MQTT>, and None for every other name.
C1_ParseFilenameContract ==
    u_out.called => u_out.v = Decoded(u_in)

----------------------------------------------------------------------------
(* The parsing policy, stated on the shape of a cell *)

\* the text without a trailing '+...' offset or 'Z' marker
Core(toks) ==
    LET cut == {i \in DOMAIN toks : toks[i] \in {PLUS, ZED}}
    IN  IF cut = {} THEN toks ELSE SubSeq(toks, 1, SetMin(cut) - 1)

IsoCore(c) ==
    \/ Len(c) = 1 /\ c[1].k \in {"dt", "dts"}
    \/ Len(c) = 3 /\ c[1].k \in {"dt", "dts"} /\ c[2] = MINUS /\ c[3].k = "off"

PatternCore(c) == Len(c) = 1 /\ c[1].k \in {"dt", "dtu"}

\* a core that still carries an offset denotes an absolute instant
CoreAware(c) == Len(c) = 3

\* seconds: local for a bare core, UTC for a core with an offset
CoreSeconds(c) == IF Len(c) = 3 THEN c[1].v + c[3].v * Hour ELSE c[1].v

\* the row has two time cells that parse by the same rule and can be compared
RowParses(row) ==
    /\ {"timestamp", "receive_time"} \subseteq DOMAIN row
    /\ row["timestamp"].text /\ row["receive_time"].text
    /\ LET o == Core(row["timestamp"].toks)
           r == Core(row["receive_time"].toks)
       IN  \/ IsoCore(o) /\ IsoCore(r) /\ CoreAware(o) = CoreAware(r)
           \/ ~(IsoCore(o) /\ IsoCore(r)) /\ PatternCore(o) /\ PatternCore(r)

\* reception - origination of a row that parses, in milliseconds
RowDelayMs(row) ==
    (CoreSeconds(Core(row["receive_time"].toks))
       - CoreSeconds(Core(row["timestamp"].toks))) * MsPerSecond

\* the row yields a parseable, non-negative delay
ValidRow(row) == RowParses(row) /\ RowDelayMs(row) >= 0

\* the cell is a valid receive_time instant of the throughput estimator
ValidReceive(cell) ==
    /\ cell.text
    /\ cell.toks /= <<>>
    /\ cell.toks[1].k \in {"dt", "dts", "dtu"}
    /\ \/ Len(cell.toks) = 1
       \/ Len(cell.toks) = 2 /\ cell.toks[2] = ZED
       \/ Len(cell.toks) = 3 /\ cell.toks[2] \in {PLUS, MINUS} /\ cell.toks[3].k = "off"

\* its UTC second
ReceiveSecond(cell) ==
    IF Len(cell.toks) = 3
    THEN (IF cell.toks[2] = PLUS THEN cell.toks[1].v - cell.toks[3].v * Hour
                                 ELSE cell.toks[1].v + cell.toks[3].v * Hour)
    ELSE cell.toks[1].v

----------------------------------------------------------------------------
(* Claims about load_experiment_data and aggregate_statistics *)

\* the keys a file of the folder can decode to
FolderKeys ==
    {parse_filename(dir[i].name) : i \in DOMAIN dir} \ {None}

\* the places in the folder of the matched, readable run files of a key
RunFiles(key) ==
    {i \in DOMAIN dir : /\ EndsWith(dir[i].name, DotCsv)
                        /\ parse_filename(dir[i].name) = key
                        /\ dir[i].readable}

\* the rows <<file, row>> of the run files of a key that satisfy P
RowsWhere(key, P(_)) ==
    {fj \in UNION {{<<i, j>> : j \in DOMAIN dir[i].rows} : i \in RunFiles(key)} :
        P(dir[fj[1]].rows[fj[2]])}

\* each of the two time cells of the row parses on its own
BothParse(row) ==
    /\ {"timestamp", "receive_time"} \subseteq DOMAIN row
    /\ row["timestamp"].text /\ row["receive_time"].text
    /\ LET o == Core(row["timestamp"].toks)
           r == Core(row["receive_time"].toks)
       IN  (IsoCore(o) \/ PatternCore(o)) /\ (IsoCore(r) \/ PatternCore(r))

\* both cells parse and reception is not before origination
InOrderRow(row) == BothParse(row) /\ RowDelayMs(row) >= 0

\* C2: every row of a matched run file whose two timestamps parse with
\* reception >= origination adds (reception - origination) in milliseconds to
\* the DelayPool of the file's key; a row with a negative delay or without a
\* parse adds nothing; every value of the DelayPool is non-negative.
C2_DelayPoolValues ==
    pc = "loaded" =>
        /\ \A key \in FolderKeys \cup Keys(experiment_data) :
              Range(Get(experiment_data, key))
                = {RowDelayMs(dir[fj[1]].rows[fj[2]]) : fj \in RowsWhere(key, InOrderRow)}
        /\ \A i \in DOMAIN experiment_data :
              \A j \in DOMAIN experiment_data[i][2] : experiment_data[i][2][j] >= 0

\* C3: the count of each emitted row is the number of rows, over all run
\* files decoding to its key, that produced a parseable non-negative delay.
C3_CountIsValidRows ==
    \A i \in DOMAIN stats_df :
        stats_df[i].count =
            Cardinality(RowsWhere(<<stats_df[i].message_frequency,
                                    stats_df[i].num_devices,
                                    stats_df[i].protocol>>, ValidRow))

C3_Witness ==
    \E i \in DOMAIN stats_df :
        /\ stats_df[i].count = 2
        /\ Cardinality(RunFiles(<<stats_df[i].message_frequency,
                                  stats_df[i].num_devices,
                                  stats_df[i].protocol>>)) = 2

NoCandidate == \A i \in DOMAIN dir : ~EndsWith(dir[i].name, DotCsv)

\* C4: load_experiment_data raises exactly when the folder does not exist or
\* holds no candidate .csv file; on every other folder nothing is raised
\* while the files are visited and the call returns with every file visited.
C4_FatalOnly ==
    /\ pc \in {"loop", "loaded", "except"} =>
          ((raised /= "none") <=> (~dirExists \/ NoCandidate))
    /\ pc = "except" <=> raised /= "none" /\ pc /= "done"
    /\ pc = "loaded" => csv_files = <<>> /\ raised = "none"

C4_Witness ==
    /\ pc = "loaded"
    /\ \E i \in DOMAIN dir : EndsWith(dir[i].name, DotCsv) /\ ~dir[i].readable
    /\ \E i \in DOMAIN dir : /\ EndsWith(dir[i].name, DotCsv)
                             /\ parse_filename(dir[i].name) = None

\* what a file contributes when it is the only file of the folder
Alone(f) ==
    IF parse_filename(f.name) = None \/ ~f.readable
    THEN [delays |-> <<>>, pairs |-> <<>>]
    ELSE [delays |-> FileDelays(f.rows), pairs |-> FileThroughput(f)]

\* the contributions of the files of a key, in enumeration order
RECURSIVE Contributions(_, _, _)
Contributions(files, key, part) ==
    IF files = <<>> THEN <<>>
    ELSE (IF parse_filename(Head(files).name) = key
          THEN Alone(Head(files))[part] ELSE <<>>)
         \o Contributions(Tail(files), key, part)

ReceiveValid(row) == "receive_time" \in DOMAIN row /\ ValidReceive(row["receive_time"])

\* the 'timestamp' cell of the row does not parse
BadOrigination(row) ==
    /\ "timestamp" \in DOMAIN row
    /\ \/ ~row["timestamp"].text
       \/ LET o == Core(row["timestamp"].toks) IN ~IsoCore(o) /\ ~PatternCore(o)

LostOrigination(row) == ReceiveValid(row) /\ BadOrigination(row)

AnyRow(row) == TRUE

\* C6: delay extraction and throughput estimation do not short-circuit each
\* other: every row with a valid receive_time counts in the throughput of
\* its file, whether or not its delay was accepted, and a file without any
\* valid delay still records its pair.
C6_NoShortCircuit ==
    pc = "loaded" =>
        \A key \in FolderKeys :
            /\ CountSum(Get(throughput_runs, key))
                 = Cardinality(RowsWhere(key, ReceiveValid))
            /\ RowsWhere(key, ReceiveValid) /= {} => key \in Keys(throughput_runs)
            /\ Len(Get(experiment_data, key)) + Cardinality(RowsWhere(key, BadOrigination))
                 <= Cardinality(RowsWhere(key, AnyRow))

C6_Witness ==
    /\ pc = "loaded"
    /\ experiment_data = <<>>
    /\ \E key \in FolderKeys :
          /\ RowsWhere(key, LostOrigination) /= {}
          /\ key \in Keys(throughput_runs)

\* the candidates the loop has finished with
Visited ==
    IF pc \in {"load", "except"} THEN <<>>
    ELSE SubSeq(Glob(dir), 1, Len(Glob(dir)) - Len(csv_files))

\* the rows of a file with a valid receive_time
ReceiveRows(f) ==
    IF "receive_time" \in f.columns
    THEN {j \in DOMAIN f.rows : ValidReceive(f.rows[j]["receive_time"])}
    ELSE {}

ReceiveSeconds(f) == {ReceiveSecond(f.rows[j]["receive_time"]) : j \in ReceiveRows(f)}

\* the pair the estimator owes to a run file, as a list of none or one
OwedPairs(f) ==
    IF ReceiveRows(f) = {} THEN <<>>
    ELSE LET lo == SetMin(ReceiveSeconds(f))
             hi == SetMax(ReceiveSeconds(f))
         IN  << [msg_count |-> Cardinality(ReceiveRows(f)),
                 span_seconds |-> IF hi = lo THEN [num |-> 1, den |-> MinSpanDen]
                                  ELSE [num |-> hi - lo, den |-> 1]] >>

RECURSIVE OwedRuns(_, _)
OwedRuns(files, key) ==
    IF files = <<>> THEN <<>>
    ELSE (IF parse_filename(Head(files).name) = key /\ Head(files).readable
          THEN OwedPairs(Head(files)) ELSE <<>>)
         \o OwedRuns(Tail(files), key)

\* C7: each matched, readable run file adds at most one pair: (number of
\* valid receive_time instants, max(1e-9, max - min) seconds) when it has a
\* valid instant, none otherwise; every pair has count > 0 and span > 0.
C7_OnePairPerRun ==
    /\ \A key \in FolderKeys \cup Keys(throughput_runs) :
          Get(throughput_runs, key) = OwedRuns(Visited, key)
    /\ \A i \in DOMAIN throughput_runs :
          \A j \in DOMAIN throughput_runs[i][2] :
              /\ throughput_runs[i][2][j].msg_count > 0
              /\ throughput_runs[i][2][j].span_seconds.num > 0

C7_Witness ==
    /\ pc = "loaded"
    /\ \E i \in DOMAIN throughput_runs :
          \E j \in DOMAIN throughput_runs[i][2] :
              /\ throughput_runs[i][2][j].msg_count >= 1
              /\ throughput_runs[i][2][j].span_seconds = [num |-> 1, den |-> MinSpanDen]
    /\ \E i \in DOMAIN dir : /\ dir[i].readable
                             /\ parse_filename(dir[i].name) /= None
                             /\ "receive_time" \notin dir[i].columns
                             /\ dir[i].rows /= <<>>

\* the key has a throughput sample and the command line asks for its interval
Requested(key) ==
    /\ Get(throughput_runs, key) /= <<>>
    /\ ~args.interval.given \/ args.interval.v = key[1]

\* a throughput chart of the interval of the key shows a point for the key
HasThroughputFigure(key) ==
    \E fig \in figures :
        /\ fig.kind = "throughput"
        /\ fig.interval = key[1]
        /\ \E i \in DOMAIN fig.lines :
              /\ fig.lines[i].protocol = key[3]
              /\ \E j \in DOMAIN fig.lines[i].points :
                    fig.lines[i].points[j][1] = key[2]

\* C9: a run of the entry point that loaded the folder produces a throughput
\* figure for every key that has a throughput sample and whose interval is
\* asked for, whether or not any key has a valid delay.
C9_ThroughputForEveryKey ==
    (pc = "done" /\ raised = "none") =>
        \A key \in Keys(throughput_runs) : Requested(key) => HasThroughputFigure(key)

\* the keys of the emitted rows
RowKeys ==
    {<<stats_df[i].message_frequency, stats_df[i].num_devices, stats_df[i].protocol>> :
        i \in DOMAIN stats_df}

\* C10: aggregate_statistics emits exactly one row for every key that has a
\* valid delay and none for any other key; no row has count 0 and no two
\* rows have the same key.
C10_OneRowPerKey ==
    pc \in {"plot_delay", "plot_throughput", "export", "done"} =>
        /\ RowKeys = {key \in FolderKeys : RowsWhere(key, ValidRow) /= {}}
        /\ Len(stats_df) = Cardinality(RowKeys)
        /\ \A i \in DOMAIN stats_df : stats_df[i].count > 0

C10_Witness ==
    /\ pc = "plot_delay"
    /\ Len(stats_df) = 1
    /\ stats_df[1].count = 1
    /\ \E key \in FolderKeys \ RowKeys :
          \E i \in RunFiles(key) : dir[i].rows /= <<>>

----------------------------------------------------------------------------
(* Unit check of the throughput comparison: lines 214-225 on any pool *)

RunSet ==
    [msg_count : 1..MaxCount,
     span_seconds : {MinSpan} \cup {Rat(n, 1) : n \in 1..MaxSpan}]

RunSeqs(n) == UNION {[1..m -> RunSet] : m \in 0..n}

Key_1_2_HTTP == <<1, 2, HTTP>>

OtherKeys == {<<2, 2, MQTT>>, <<1, 2, MQTT>>}

\* pools of one key with up to n runs and at most one more key with up to
\* one run, in both insertion orders
PoolSet(n) ==
    { << <<Key_1_2_HTTP, rs>> >> : rs \in RunSeqs(n) }
    \cup { << <<Key_1_2_HTTP, rs>>, <<k, qs>> >> :
             rs \in RunSeqs(n), k \in OtherKeys, qs \in RunSeqs(1) }
    \cup { << <<k, qs>>, <<Key_1_2_HTTP, rs>> >> :
             rs \in RunSeqs(n), k \in OtherKeys, qs \in RunSeqs(1) }

InitThroughput ==
    /\ PipeIdle
    /\ ThreadsIdle
    /\ pc = "throughput_records"
    /\ u_in \in [runs_by_key : PoolSet(MaxRuns), interval_seconds : 1..2]
    /\ u_out = NotCalled

CallThroughputRecords ==
    /\ pc = "throughput_records"
    /\ ~u_out.called
    /\ u_out' = Returned(ThroughputRecords(u_in.runs_by_key, u_in.interval_seconds))
    /\ UNCHANGED <<pipeVars, u_in, threadVars>>

NextThroughput == CallThroughputRecords

SpecThroughput == InitThroughput /\ [][NextThroughput]_vars

ScaledMulInt(a, n) ==
    Scaled(Rat(a.g.num * n, a.g.den), Rat(a.u.num * n, a.u.den))

RecordKey(r) == <<r.message_frequency, r.num_devices, r.protocol>>

\* C8: the throughput figure of a key is the arithmetic mean of the per-run
\* rates count/span of its pairs: the figure times the number of runs is the
\* sum of the rates, one figure for each key of the interval that has a run.
C8_MeanOfPerRunRates ==
    u_out.called =>
        /\ \A i \in DOMAIN u_out.v :
              LET runs == Get(u_in.runs_by_key, RecordKey(u_out.v[i]))
              IN  ScaledMulInt(u_out.v[i].throughput_mps, Len(runs))
                    = ScaledSum([j \in DOMAIN runs |-> PerRunRate(runs[j])])
        /\ {RecordKey(u_out.v[i]) : i \in DOMAIN u_out.v}
              = {k \in Keys(u_in.runs_by_key) :
                   k[1] = u_in.interval_seconds /\ Get(u_in.runs_by_key, k) /= <<>>}
        /\ Len(u_out.v) = Cardinality({RecordKey(u_out.v[i]) : i \in DOMAIN u_out.v})

C8_Witness ==
    /\ u_out.called
    /\ \E i \in DOMAIN u_out.v :
          LET runs == Get(u_in.runs_by_key, RecordKey(u_out.v[i]))
          IN  /\ Len(runs) = 2
              /\ \A j \in DOMAIN runs : runs[j].span_seconds.den = 1
              /\ u_out.v[i].throughput_mps /= Throughput_Pooled(runs)

----------------------------------------------------------------------------
(* Unit check of aggregate_statistics: lines 146-164 on any delay pool *)

DelaySeqs(n) == UNION {[1..m -> 0..MaxDelay] : m \in 0..n}

\* pools of one key with up to MaxPool delays and at most one more key with
\* up to one delay
DelayPoolSet ==
    { << <<Key_1_2_HTTP, ds>> >> : ds \in DelaySeqs(MaxPool) }
    \cup { << <<Key_1_2_HTTP, ds>>, <<k, es>> >> :
             ds \in DelaySeqs(MaxPool), k \in OtherKeys, es \in DelaySeqs(1) }

InitStatistics ==
    /\ PipeIdle
    /\ ThreadsIdle
    /\ pc = "aggregate_statistics"
    /\ u_in \in DelayPoolSet
    /\ u_out = NotCalled

CallAggregateStatistics ==
    /\ pc = "aggregate_statistics"
    /\ ~u_out.called
    /\ u_out' = Returned(aggregate_statistics(u_in))
    /\ UNCHANGED <<pipeVars, u_in, threadVars>>

NextStatistics == CallAggregateStatistics

SpecStatistics == InitStatistics /\ [][NextStatistics]_vars

RatLeq(a, b) == ~RatLess(b, a)

\* C11: for every non-empty pool the statistics are ordered:
\* min <= median <= p95 <= p99 <= max.
C11_PercentilesMonotonic ==
    u_out.called =>
        \A i \in DOMAIN u_out.v :
            LET r == u_out.v[i] IN
            /\ RatLeq(Rat(r.min_delay, 1), r.median_delay)
            /\ RatLeq(r.median_delay, r.p95_delay)
            /\ RatLeq(r.p95_delay, r.p99_delay)
            /\ RatLeq(r.p99_delay, Rat(r.max_delay, 1))

C11_Witness ==
    /\ u_out.called
    /\ \E i \in DOMAIN u_out.v :
          LET r == u_out.v[i] IN
          /\ r.count = 3
          /\ Get(u_in, RecordKey(r)) /= Sorted(Get(u_in, RecordKey(r)))
          /\ RatLess(r.median_delay, r.p95_delay)
          /\ RatLess(r.p95_delay, r.p99_delay)
          /\ RatLess(r.p99_delay, Rat(r.max_delay, 1))

----------------------------------------------------------------------------
(* Claims about main and the two comparisons *)

\* the delay comparison has run / both comparisons have run
DelayPlotted == pc \in {"plot_throughput", "export", "done"} /\ stats_df /= <<>>

BothPlotted == pc \in {"export", "done"} /\ stats_df /= <<>>

\* no row of the statistics table has the interval
NoDelayRows(v) == \A i \in DOMAIN stats_df : stats_df[i].message_frequency /= v

\* no key of the interval has a throughput sample
NoThroughputSamples(v) ==
    \A key \in Keys(throughput_runs) : key[1] = v => Get(throughput_runs, key) = <<>>

ChartOf(kind, v) == {f \in figures : f.kind = kind /\ f.interval = v}

\* a step taken from a comparison or from the export goes to the next stage
C12_GoesOn ==
    /\ pc = "plot_delay" => pc' = "plot_throughput"
    /\ pc = "plot_throughput" => pc' = "export"
    /\ pc = "export" => pc' = "done" /\ (exported'.called <=> args.export_csv.given)

\* C12: a comparison asked for an interval with no row (delay) or no sample
\* (throughput) writes no chart for it and raises nothing, and main goes on
\* to the other comparison, the export and the end.
C12_EmptyComparison ==
    /\ [](\A v \in 1..2 :
            /\ DelayPlotted /\ NoDelayRows(v) => ChartOf("delay", v) = {}
            /\ BothPlotted /\ NoThroughputSamples(v) => ChartOf("throughput", v) = {}
            /\ DelayPlotted => raised = "none")
    /\ [][C12_GoesOn]_vars

C12_Witness ==
    /\ pc = "done"
    /\ stats_df /= <<>>
    /\ args.interval.given
    /\ NoDelayRows(args.interval.v)
    /\ NoThroughputSamples(args.interval.v)
    /\ figures = {}
    /\ exported.called

\* the run met a fatal condition: no data folder, or no candidate file in it
Fatal == raised /= "none"

\* C13: after a fatal condition main ends having produced no artifact: no
\* chart, no output directory, no exported table, no file of the data folder
\* created or changed.
C13_FatalNoArtifacts ==
    Fatal =>
        /\ pc \in {"except", "done"}
        /\ figures = {}
        /\ output_dir = "absent"
        /\ ~exported.called
        /\ folder = dir

C13_Witness ==
    /\ pc = "done"
    /\ raised = "ValueError"
    /\ dir /= <<>>
    /\ args.export_csv.given
    /\ args.export_csv.parent = "data_folder"

\* the file is a run file: a candidate whose name decodes to a key
IsRunFile(f) == EndsWith(f.name, DotCsv) /\ parse_filename(f.name) /= None

\* C14: run files are read-only inputs: whatever the command line, every run
\* file of the data folder has at the end of main the content it had at the
\* start.
C14_RunFilesUnchanged ==
    pc = "done" =>
        \A i \in DOMAIN dir :
            IsRunFile(dir[i]) => \E j \in DOMAIN folder : folder[j] = dir[i]

\* how many times x is in the list
Occurrences(xs, x) == Cardinality({i \in DOMAIN xs : xs[i] = x})

\* the places <<file, position>> of the valid delays equal to x in the run
\* files of the key: a property of the set of files, not of their order
DelayPlaces(key, x) ==
    UNION { {<<i, j>> : j \in {n \in DOMAIN FileDelays(dir[i].rows) :
                                  FileDelays(dir[i].rows)[n] = x}} :
            i \in RunFiles(key) }

\* the run files of the key whose throughput pair is p
PairFiles(key, p) == {i \in RunFiles(key) : FileThroughput(dir[i]) = <<p>>}

AllDelays == UNION {Range(FileDelays(dir[i].rows)) : i \in DOMAIN dir}

AllPairs == UNION {Range(FileThroughput(dir[i])) : i \in DOMAIN dir}

Loaded == pc \in {"loaded", "plot_delay", "plot_throughput", "export", "done"}

----------------------------------------------------------------------------
(* Unit check of calculate_delay: lines 43-68 on any row *)

CoreSet ==
    {<<DT(t)>> : t \in 0..MaxSecond} \cup {<<DTS(t)>> : t \in 0..MaxSecond}
    \cup {<<DTU(t)>> : t \in 0..MaxSecond} \cup {<<JUNK>>}

SuffixSet ==
    {<<>>, <<ZED>>} \cup {<<PLUS, OFF(h)>> : h \in 0..MaxOffset}
    \cup {<<MINUS, OFF(h)>> : h \in 0..MaxOffset}

\* a text with or without a timezone suffix, or the NaN of an empty cell
CellSet == {Str(c \o x) : c \in CoreSet, x \in SuffixSet} \cup {NaN}

\* rows with both fields or with one of them missing
DelayRowSet ==
    [{"timestamp", "receive_time"} -> CellSet]
    \cup [{"timestamp"} -> CellSet] \cup [{"receive_time"} -> CellSet]

InitDelay ==
    /\ PipeIdle
    /\ ThreadsIdle
    /\ pc = "calculate_delay"
    /\ u_in \in DelayRowSet
    /\ u_out = NotCalled

CallCalculateDelay ==
    /\ pc = "calculate_delay"
    /\ ~u_out.called
    /\ u_out' = Returned(calculate_delay(u_in))
    /\ UNCHANGED <<pipeVars, u_in, threadVars>>

NextDelay == CallCalculateDelay

SpecDelay == InitDelay /\ [][NextDelay]_vars

BothFields(row) == {"timestamp", "receive_time"} \subseteq DOMAIN row

\* the cell is a date-time followed by an offset or a Z marker
Suffixed(cell) ==
    /\ cell.text
    /\ Len(cell.toks) >= 2
    /\ cell.toks[1].k \in {"dt", "dts", "dtu"}
    /\ \/ cell.toks[2] = ZED /\ Len(cell.toks) = 2
       \/ cell.toks[2] \in {PLUS, MINUS} /\ Len(cell.toks) = 3 /\ cell.toks[3].k = "off"

\* the two date-times, without their suffixes, parse as a pair
BareParses(row) ==
    ParsePair(<<row["timestamp"].toks[1]>>, <<row["receive_time"].toks[1]>>)[1].ok

\* seconds of the date-time as written, whatever the suffix says
LocalSeconds(cell) == cell.toks[1].v

\* C16: timezone suffixes are ignored: for two texts that carry an offset or
\* a Z marker the delay is the difference of the two local date-times.
C16_SuffixIgnored ==
    u_out.called /\ BothFields(u_in) =>
        (Suffixed(u_in["timestamp"]) /\ Suffixed(u_in["receive_time"]) /\ BareParses(u_in)
           => u_out.v = Delay((LocalSeconds(u_in["receive_time"])
                                 - LocalSeconds(u_in["timestamp"])) * MsPerSecond))

\* the stripped text of the cell is rejected by both parses
Rejected(cell) ==
    \/ ~cell.text
    \/ LET c == Core(cell.toks) IN ~IsoCore(c) /\ ~PatternCore(c)

\* C17: the result is None exactly when a field is missing or one of the two
\* stripped texts is rejected by the ISO parse and by the pattern; a row of
\* two texts each accepted by one of the parses yields a delay.
C17_UnparseableExactly ==
    u_out.called =>
        (u_out.v = NoDelay <=>
            \/ ~BothFields(u_in)
            \/ Rejected(u_in["timestamp"])
            \/ Rejected(u_in["receive_time"]))

\* C18: calculate_delay never raises: on every row it returns a delay or
\* None.
C18_NeverRaises ==
    u_out.called => u_out.v = NoDelay \/ (u_out.v.ok /\ u_out.v = Delay(u_out.v.ms))

C18_Witness ==
    /\ u_out.called
    /\ DelayBody(u_in).exc = "TypeError"
    /\ u_out.v = NoDelay

----------------------------------------------------------------------------
(* Unit check of the delay comparison: lines 172-195 on any table *)

StatKeys == (1..2) \X (1..MaxDevices) \X ProtocolWords

\* mean delays of the rows: a whole and a fractional number of milliseconds
MeanSet == {Rat(1, 1), Rat(3, 2)}

\* the columns of a row that the comparison reads
StatRowSet ==
    { [message_frequency |-> k[1], num_devices |-> k[2], protocol |-> k[3],
       mean_delay |-> m] : k \in StatKeys, m \in MeanSet }

\* the comparison is about to be asked for one interval; the table is empty
InitDelayChart ==
    /\ PipeIdle
    /\ ThreadsIdle
    /\ pc = "plot_delay_vs_devices_for_interval"
    /\ u_in \in [stats_df : {<<>>}, interval_seconds : 1..2]
    /\ u_out = NotCalled

\* the table gets one more row, of a key it does not have yet: tables of up
\* to MaxStatRows rows, one row for a key at most, in any order
AppendStatRow ==
    /\ pc = "plot_delay_vs_devices_for_interval"
    /\ ~u_out.called
    /\ Len(u_in.stats_df) < MaxStatRows
    /\ \E r \in StatRowSet :
          /\ \A i \in DOMAIN u_in.stats_df : RecordKey(u_in.stats_df[i]) /= RecordKey(r)
          /\ u_in' = [u_in EXCEPT !.stats_df = Append(@, r)]
    /\ UNCHANGED <<pipeVars, u_out, threadVars>>

CallPlotDelay ==
    /\ pc = "plot_delay_vs_devices_for_interval"
    /\ ~u_out.called
    /\ u_out' = Returned(DelayFigures(u_in.stats_df, u_in.interval_seconds))
    /\ UNCHANGED <<pipeVars, u_in, threadVars>>

NextDelayChart == AppendStatRow \/ CallPlotDelay

SpecDelayChart == InitDelayChart /\ [][NextDelayChart]_vars

\* the rows of the table asked for: those of the interval
Selected == {i \in DOMAIN u_in.stats_df :
               u_in.stats_df[i].message_frequency = u_in.interval_seconds}

SelectedOf(p) == {i \in Selected : u_in.stats_df[i].protocol = p}

\* the points drawn for the protocol in the chart, none without a line
PointsOf(f, p) ==
    IF \E n \in DOMAIN f.lines : f.lines[n].protocol = p
    THEN f.lines[CHOOSE n \in DOMAIN f.lines : f.lines[n].protocol = p].points
    ELSE <<>>

\* C19: the delay comparison of one interval selects exactly the rows of
\* that interval and has, for each protocol, one point for each device count
\* among them, by increasing device count, whose value is the mean delay of
\* the key (interval, device count, protocol).
C19_DelayComparison ==
    u_out.called =>
        /\ Selected = {} <=> u_out.v = {}
        /\ Cardinality(u_out.v) <= 1
        /\ \A f \in u_out.v :
              /\ f.kind = "delay" /\ f.interval = u_in.interval_seconds
              /\ \A n \in DOMAIN f.lines : SelectedOf(f.lines[n].protocol) /= {}
              /\ \A p \in ProtocolWords :
                    LET pts == PointsOf(f, p) IN
                    /\ Len(pts) = Cardinality(SelectedOf(p))
                    /\ \A a, b \in DOMAIN pts : a < b => pts[a][1] < pts[b][1]
                    /\ \A i \in SelectedOf(p) :
                          \E a \in DOMAIN pts :
                              /\ pts[a][1] = u_in.stats_df[i].num_devices
                              /\ pts[a][2] = u_in.stats_df[i].mean_delay

C19_Witness ==
    /\ u_out.called
    /\ Cardinality(Selected) = 2
    /\ Len(u_in.stats_df) = 3
    /\ \E f \in u_out.v : \E n \in DOMAIN f.lines :
          /\ Len(f.lines[n].points) = 2
          /\ f.lines[n].points[1][2] /= f.lines[n].points[2][2]
    /\ \E i, j \in Selected :
          i < j /\ u_in.stats_df[i].num_devices > u_in.stats_df[j].num_devices

----------------------------------------------------------------------------
(* The writer of run file names (src/run_demo.py) and the round trip *)

\* str(n) of an int n >= 0
RECURSIVE IntStr(_)
IntStr(n) ==
    IF n < 10 THEN <<DigitChars[n + 1]>>
    ELSE IntStr(n \div 10) \o <<DigitChars[(n % 10) + 1]>>

generate_csv_filename_Swapped(config) ==
    IntStr(config.num_devices) \o <<"_">> \o IntStr(config.message_interval)
        \o <<"_">> \o Upper(config.protocol) \o DotCsv

\* f"{message_frequency}_{num_devices}_{protocol}.csv", protocol upper-cased
generate_csv_filename(config) ==
    IntStr(config.message_interval) \o <<"_">> \o IntStr(config.num_devices)
        \o <<"_">> \o Upper(config.protocol) \o DotCsv

\* spellings of the protocol in a configuration
ProtocolSpellings ==
    {HTTP, <<"h", "t", "t", "p">>, <<"H", "t", "T", "p">>,
     MQTT, <<"m", "q", "t", "t">>, <<"m", "Q", "t", "T">>}

ConfigSet ==
    [message_interval : 0..MaxNumber, num_devices : 0..MaxNumber,
     protocol : ProtocolSpellings]

InitRoundTrip ==
    /\ PipeIdle
    /\ ThreadsIdle
    /\ pc = "generate_csv_filename"
    /\ u_in \in ConfigSet
    /\ u_out = NotCalled

\* the demo names the run file of the configuration
CallGenerateCsvFilename ==
    /\ pc = "generate_csv_filename"
    /\ u_out' = Returned(generate_csv_filename(u_in))
    /\ pc' = "parse_generated"
    /\ UNCHANGED <<dirExists, dir, args, csv_files, experiment_data, throughput_runs,
                   raised, stats_df, figures, exported, output_dir, folder, u_in, threadVars>>

\* the analysis decodes that name
CallParseGenerated ==
    /\ pc = "parse_generated"
    /\ u_out' = Returned(parse_filename(u_out.v))
    /\ pc' = "round_trip"
    /\ UNCHANGED <<dirExists, dir, args, csv_files, experiment_data, throughput_runs,
                   raised, stats_df, figures, exported, output_dir, folder, u_in, threadVars>>

NextRoundTrip == CallGenerateCsvFilename \/ CallParseGenerated

SpecRoundTrip == InitRoundTrip /\ [][NextRoundTrip]_vars

\* C20: parse_filename of the name generate_csv_filename gives to a
\* configuration is (message_interval, num_devices, upper-cased protocol).
C20_RoundTrip ==
    /\ pc = "parse_generated" => EndsWith(u_out.v, DotCsv)
    /\ pc = "round_trip" =>
          u_out.v = <<u_in.message_interval, u_in.num_devices, Upper(u_in.protocol)>>

C20_Witness ==
    /\ pc = "round_trip"
    /\ u_in.message_interval = 10
    /\ u_in.num_devices = 0
    /\ u_in.protocol = <<"m", "Q", "t", "T">>
    /\ u_out.v = <<10, 0, MQTT>>

----------------------------------------------------------------------------
(* The collector's append to the run file (src/storage.py) under the       *)
(* request threads of src/collector/http_collector.py                      *)

\* requests that arrive at the collector
MaxCalls == 3

\* request.json of a POST: a reading with the expected fields, a dict with
\* a field the writer does not know, a true value that is no dict, or a
\* false value
DataSet == {"reading", "extra_key", "not_a_dict", "empty"}

\* the line writer.writeheader() writes
HeaderLine == [kind |-> "header", call |-> 0]

\* the line writer.writerow(data_with_receive_time) writes for request c
RowLine(c) == [kind |-> "row", call |-> c]

\* the request thread c moves to the place at
Goto(c, at) == [calls EXCEPT ![c].at = at]

\* collect(): a false body is answered 400 without a call of save_to_csv
Collect ==
    /\ pc = "collector"
    /\ Len(calls) < MaxCalls
    /\ \E d \in DataSet :
          calls' = Append(calls,
                     [at |-> IF d = "empty" THEN "responded" ELSE "save_to_csv",
                      data |-> d, file_exists |-> FALSE, buffer |-> <<>>,
                      status |-> IF d = "empty" THEN 400 ELSE 0])
    /\ UNCHANGED <<pipeVars, unitVars, csv_lock, disk, deviceVars>>

\* data.copy() and the assignment of receive_time, before the lock: a body
\* that is no dict raises here and the request is answered 500
AddReceiveTime(c) ==
    /\ c \in DOMAIN calls /\ calls[c].at = "save_to_csv"
    /\ calls' = IF calls[c].data = "not_a_dict"
                THEN [calls EXCEPT ![c].at = "responded", ![c].status = 500]
                ELSE Goto(c, "acquire")
    /\ UNCHANGED <<pipeVars, unitVars, csv_lock, disk, deviceVars>>

Acquire_NoWait(c) ==
    /\ c \in DOMAIN calls /\ calls[c].at = "acquire"
    /\ csv_lock' = c
    /\ calls' = Goto(c, "exists")
    /\ UNCHANGED <<pipeVars, unitVars, disk, deviceVars>>

\* with _csv_lock: entered when no other request holds the lock
Acquire(c) ==
    /\ c \in DOMAIN calls /\ calls[c].at = "acquire"
    /\ csv_lock = 0
    /\ csv_lock' = c
    /\ calls' = Goto(c, "exists")
    /\ UNCHANGED <<pipeVars, unitVars, disk, deviceVars>>

\* file_exists = os.path.exists(csv_filename)
PathExists(c) ==
    /\ c \in DOMAIN calls /\ calls[c].at = "exists"
    /\ calls' = [calls EXCEPT ![c].at = "open", ![c].file_exists = disk.exists]
    /\ UNCHANGED <<pipeVars, unitVars, csv_lock, disk, deviceVars>>

\* open(csv_filename, 'a'): creates the file when it is absent; what is
\* written goes to the buffer of this file object
OpenAppend(c) ==
    /\ c \in DOMAIN calls /\ calls[c].at = "open"
    /\ disk' = [disk EXCEPT !.exists = TRUE]
    /\ calls' = [calls EXCEPT ![c].buffer = <<>>,
                              ![c].at = IF calls[c].file_exists THEN "writerow"
                                        ELSE "writeheader"]
    /\ UNCHANGED <<pipeVars, unitVars, csv_lock, deviceVars>>

\* writer.writeheader()
WriteHeader(c) ==
    /\ c \in DOMAIN calls /\ calls[c].at = "writeheader"
    /\ calls' = [calls EXCEPT ![c].buffer = Append(@, HeaderLine),
                              ![c].at = "writerow"]
    /\ UNCHANGED <<pipeVars, unitVars, csv_lock, disk, deviceVars>>

\* writer.writerow(...): DictWriter raises ValueError on a field that is not
\* in fieldnames and writes nothing
WriteRow(c) ==
    /\ c \in DOMAIN calls /\ calls[c].at = "writerow"
    /\ calls' = IF calls[c].data = "extra_key"
                THEN [calls EXCEPT ![c].status = 500, ![c].at = "close"]
                ELSE [calls EXCEPT ![c].buffer = Append(@, RowLine(c)),
                                   ![c].at = "close"]
    /\ UNCHANGED <<pipeVars, unitVars, csv_lock, disk, deviceVars>>

\* leaving "with open(...)", normally or by the exception: the file object
\* is closed and its buffer is appended to the file
CloseFile(c) ==
    /\ c \in DOMAIN calls /\ calls[c].at = "close"
    /\ disk' = [disk EXCEPT !.lines = @ \o calls[c].buffer]
    /\ calls' = [calls EXCEPT ![c].buffer = <<>>, ![c].at = "release"]
    /\ UNCHANGED <<pipeVars, unitVars, csv_lock, deviceVars>>

\* leaving "with _csv_lock", after the print or by the exception: the lock
\* is released and the request is answered
Release(c) ==
    /\ c \in DOMAIN calls /\ calls[c].at = "release"
    /\ csv_lock' = 0
    /\ calls' = [calls EXCEPT ![c].at = "responded",
                              ![c].status = IF @ = 500 THEN 500 ELSE 200]
    /\ UNCHANGED <<pipeVars, unitVars, disk, deviceVars>>

InitStorage ==
    /\ PipeIdle
    /\ ThreadsIdle
    /\ pc = "collector"
    /\ u_in = <<>>
    /\ u_out = NotCalled

NextStorage ==
    \/ Collect
    \/ \E c \in 1..MaxCalls : AddReceiveTime(c)
    \/ \E c \in 1..MaxCalls : Acquire(c)
    \/ \E c \in 1..MaxCalls : PathExists(c)
    \/ \E c \in 1..MaxCalls : OpenAppend(c)
    \/ \E c \in 1..MaxCalls : WriteHeader(c)
    \/ \E c \in 1..MaxCalls : WriteRow(c)
    \/ \E c \in 1..MaxCalls : CloseFile(c)
    \/ \E c \in 1..MaxCalls : Release(c)

SpecStorage == InitStorage /\ [][NextStorage]_vars

\* the request is between the existence check and the release of the lock
InCritical(c) ==
    calls[c].at \in {"exists", "open", "writeheader", "writerow", "close", "release"}

\* the request has closed the file it opened
Closed(c) ==
    /\ calls[c].at \in {"release", "responded"}
    /\ calls[c].data \in {"reading", "extra_key"}

\* save_to_csv of the request returned without an exception
Succeeded(c) == calls[c].at = "responded" /\ calls[c].status = 200

\* the places of the file where the line is
LinesEqual(l) == {i \in DOMAIN disk.lines : disk.lines[i] = l}

\* C21: whatever the interleaving of the request threads on the initially
\* absent file, a request between its existence check and its release holds
\* the lock alone, its existence check still stands when it writes, and
\* the file is one header line followed by one whole row of each request
\* that has written, each successful request having exactly one row.
C21_OneCriticalSection ==
    /\ \A c \in DOMAIN calls : InCritical(c) => csv_lock = c
    /\ \A c \in DOMAIN calls :
          calls[c].at \in {"writeheader", "writerow", "close"} =>
              (calls[c].file_exists <=> disk.lines /= <<>>)
    /\ ~disk.exists => disk.lines = <<>>
    /\ disk.lines /= <<>> => disk.lines[1] = HeaderLine
    /\ (\E c \in DOMAIN calls : Closed(c)) => disk.lines /= <<>>
    /\ \A i \in DOMAIN disk.lines :
          i > 1 => \E c \in DOMAIN calls :
                       /\ disk.lines[i] = RowLine(c)
                       /\ Closed(c) /\ calls[c].data = "reading"
    /\ \A c \in DOMAIN calls :
          /\ Cardinality(LinesEqual(RowLine(c))) <= 1
          /\ Succeeded(c) => Cardinality(LinesEqual(RowLine(c))) = 1

C21_Witness ==
    /\ Len(calls) = 3
    /\ \A c \in DOMAIN calls : calls[c].at = "responded"
    /\ calls[1].data = "extra_key" /\ calls[1].file_exists = FALSE
    /\ disk.lines = <<HeaderLine, RowLine(3), RowLine(2)>>

----------------------------------------------------------------------------
(* One simulated device (src/devices/base_http_device.py; start, stop and  *)
(* the loop of src/devices/base_mqtt_device.py are the same) under a       *)
(* controlling thread that calls start() and stop()                        *)

\* threads one device creates
MaxThreads == 3

\* what the next line of data.txt leads to in the loop body: a reading to
\* send, fewer than four parts, no sensor value, _extract_sensor_value not
\* implemented (break), or a value float() rejects (the exception ends _run)
LineKinds == {"reading", "short", "no_value", "not_implemented", "bad_float"}

\* Thread.is_alive() of a thread the device created
Alive(t) == threads[t].at /= "dead"

\* self.thread and self.thread.is_alive()
ThreadAlive == device.thread /= 0 /\ Alive(device.thread)

\* the thread t moves to the place at
Move(t, at) == [threads EXCEPT ![t].at = at]

\* the controlling thread calls start()
CallStart ==
    /\ pc = "device" /\ ctl = "idle"
    /\ Len(threads) < MaxThreads
    /\ ctl' = "start"
    /\ UNCHANGED <<pipeVars, unitVars, storageVars, device, threads, probe>>

StartCheck_NoAliveTest ==
    /\ ctl = "start"
    /\ ctl' = "start_clear"
    /\ UNCHANGED <<pipeVars, unitVars, storageVars, device, threads, probe>>

\* start(): "Already running" and return when the thread is alive
StartCheck ==
    /\ ctl = "start"
    /\ ctl' = IF ThreadAlive THEN "idle" ELSE "start_clear"
    /\ UNCHANGED <<pipeVars, unitVars, storageVars, device, threads, probe>>

\* start(): self.stop_event.clear()
StartClear ==
    /\ ctl = "start_clear"
    /\ device' = [device EXCEPT !.stop_event = FALSE]
    /\ probe' = [stopped |-> FALSE, in_progress |-> FALSE, sends |-> 0]
    /\ ctl' = "start_spawn"
    /\ UNCHANGED <<pipeVars, unitVars, storageVars, threads>>

\* start(): self.thread = threading.Thread(target=self._run); self.thread.start()
StartSpawn ==
    /\ ctl = "start_spawn"
    /\ threads' = Append(threads, [at |-> "run"])
    /\ device' = [device EXCEPT !.thread = Len(threads) + 1]
    /\ ctl' = "idle"
    /\ UNCHANGED <<pipeVars, unitVars, storageVars, probe>>

\* the controlling thread calls stop()
CallStop ==
    /\ pc = "device" /\ ctl = "idle"
    /\ ctl' = "stop"
    /\ UNCHANGED <<pipeVars, unitVars, storageVars, device, threads, probe>>

\* stop(): nothing to do unless the thread is alive
StopCheck ==
    /\ ctl = "stop"
    /\ ctl' = IF ThreadAlive THEN "stop_set" ELSE "idle"
    /\ UNCHANGED <<pipeVars, unitVars, storageVars, device, threads, probe>>

\* stop(): self.stop_event.set(); the probe notes whether the emitter is
\* between the loop test and the end of its send at this moment
StopSet ==
    /\ ctl = "stop_set"
    /\ device' = [device EXCEPT !.stop_event = TRUE]
    /\ probe' = IF device.stop_event THEN probe
                ELSE [stopped |-> TRUE,
                      in_progress |-> threads[device.thread].at \in {"read", "post"},
                      sends |-> 0]
    /\ ctl' = "join"
    /\ UNCHANGED <<pipeVars, unitVars, storageVars, threads>>

\* stop(): self.thread.join(timeout=5) returns when the thread has ended or
\* when the five seconds are over
Join ==
    /\ ctl = "join"
    /\ ctl' = "idle"
    /\ UNCHANGED <<pipeVars, unitVars, storageVars, device, threads, probe>>

\* _run before the loop: the data file is read (and the broker connected
\* to); an exception here ends the thread
RunBegin(t) ==
    /\ t \in DOMAIN threads /\ threads[t].at = "run"
    /\ \E ok \in BOOLEAN : threads' = Move(t, IF ok THEN "while" ELSE "dead")
    /\ UNCHANGED <<pipeVars, unitVars, storageVars, device, ctl, probe>>

\* while not self.stop_event.is_set()
LoopTest(t) ==
    /\ t \in DOMAIN threads /\ threads[t].at = "while"
    /\ threads' = Move(t, IF device.stop_event THEN "dead" ELSE "read")
    /\ UNCHANGED <<pipeVars, unitVars, storageVars, device, ctl, probe>>

\* the loop body up to the reading
ReadLine(t) ==
    /\ t \in DOMAIN threads /\ threads[t].at = "read"
    /\ \E k \in LineKinds :
          threads' = Move(t, CASE k = "reading" -> "post"
                               [] k \in {"short", "no_value"} -> "wait"
                               [] OTHER -> "dead")
    /\ UNCHANGED <<pipeVars, unitVars, storageVars, device, ctl, probe>>

\* requests.post / client.publish: the reading is sent, or the exception is
\* caught and printed
Post(t) ==
    /\ t \in DOMAIN threads /\ threads[t].at = "post"
    /\ \E sent \in BOOLEAN :
          probe' = IF sent /\ probe.stopped /\ t = device.thread
                   THEN [probe EXCEPT !.sends = @ + 1] ELSE probe
    /\ threads' = Move(t, "wait")
    /\ UNCHANGED <<pipeVars, unitVars, storageVars, device, ctl>>

\* line_index += 1; self.stop_event.wait(timeout=self.interval) returns when
\* the event is set or the interval is over
Wait(t) ==
    /\ t \in DOMAIN threads /\ threads[t].at = "wait"
    /\ threads' = Move(t, "while")
    /\ UNCHANGED <<pipeVars, unitVars, storageVars, device, ctl, probe>>

InitDevice ==
    /\ PipeIdle
    /\ ThreadsIdle
    /\ pc = "device"
    /\ u_in = <<>>
    /\ u_out = NotCalled

\* one step of a thread running _run
EmitterStep ==
    \/ \E t \in 1..MaxThreads : RunBegin(t)
    \/ \E t \in 1..MaxThreads : LoopTest(t)
    \/ \E t \in 1..MaxThreads : ReadLine(t)
    \/ \E t \in 1..MaxThreads : Post(t)
    \/ \E t \in 1..MaxThreads : Wait(t)

NextDevice ==
    \/ CallStart \/ StartCheck \/ StartClear \/ StartSpawn
    \/ CallStop \/ StopCheck \/ StopSet \/ Join
    \/ EmitterStep

\* a started thread is scheduled, and a send returns or fails
SpecDevice == InitDevice /\ [][NextDevice]_vars /\ WF_vars(EmitterStep)

\* the threads of the device that are alive
AliveThreads == {t \in DOMAIN threads : Alive(t)}

\* a step in which start() finds the thread alive
StartOnAlive == ctl = "start" /\ ThreadAlive /\ ctl' /= "start"

\* C22: at most one thread of the device is alive, and it is self.thread; a
\* start() that finds it alive returns without a new thread and without
\* touching the device; once stop() has set the event the emitter sends at
\* most one reading, and only one it had begun, and then ends.
C22_OneEmitter ==
    /\ [](/\ Cardinality(AliveThreads) <= 1
          /\ AliveThreads \subseteq {device.thread}
          /\ probe.stopped => probe.sends <= (IF probe.in_progress THEN 1 ELSE 0)
          /\ probe.stopped /\ ThreadAlive => device.stop_event)
    /\ [][StartOnAlive => ctl' = "idle" /\ device' = device
                          /\ Len(threads') = Len(threads)]_vars
    /\ (device.stop_event /\ ThreadAlive) ~> ~ThreadAlive

C22_Witness ==
    /\ Len(threads) = 2 /\ device.thread = 2
    /\ ctl = "start" /\ ThreadAlive
    /\ device.stop_event
    /\ probe.in_progress /\ probe.sends = 1

====
